---- MODULE Spec2Model ----
(***************************************************************************)
(* Model of 1_email_validator/email_validator.py: the batch loop of main,  *)
(* EmailValidator.validate_email and the SMTP probe smtp_verify, each      *)
(* library call (dns.resolver.resolve, smtplib.SMTP methods) answered by   *)
(* the environment with a reply or an exception.  The DNS is a zone fixed  *)
(* for the run (what each domain publishes) plus transient query faults.   *)
(*                                                                         *)
(* Text is a sequence of one-character strings.  The status strings of the *)
(* source are written with the names of the status enumeration:            *)
(*   'некорректный формат'                    -> "InvalidFormat"           *)
(*   'MX-записи отсутствуют или некорректны'  -> "NoMxRecords"             *)
(*   'домен валиден'                          -> "MailboxConfirmed"        *)
(*   'домен валиден, но адрес не найден'      -> "MailboxRejected"         *)
(* and the messages of smtp_verify with tags:                              *)
(*   "адрес существует"                  -> "exists"                       *)
(*   "адрес не найден (код {code})"      -> "not_found" with the code      *)
(*   "сервер разорвал соединение"        -> "disconnected"                 *)
(*   "не удалось подключиться к серверу" -> "connect_failed"               *)
(*   "ошибка SMTP: {e}"                  -> "smtp_error" with the error    *)
(***************************************************************************)
EXTENDS Integers, Sequences, FiniteSets, TLC

\* ------------------------------------------------------------------ bounds
\* Longest input file, in lines.
MaxBatch == 2
\* Most MX records in one DNS answer.
MaxMx == 2
\* Longest text handed to validate_email directly.
MaxLen == 7
\* Longest content of message.txt, in characters.
MaxText == 2

\* ------------------------------------------------------------------- text
Letters ==
  {"a","b","c","d","e","f","g","h","i","j","k","l","m","n","o","p","q","r",
   "s","t","u","v","w","x","y","z","A","B","C","D","E","F","G","H","I","J",
   "K","L","M","N","O","P","Q","R","S","T","U","V","W","X","Y","Z"}
Digits == {"0","1","2","3","4","5","6","7","8","9"}
\* [a-zA-Z0-9._%+-]
LocalChars == Letters \cup Digits \cup {".", "_", "%", "+", "-"}
\* [a-zA-Z0-9.-]
DomainChars == Letters \cup Digits \cup {".", "-"}
\* what str.strip() removes
Whitespace == {" ", "\t", "\n", "\r"}

AllIn(s, lo, hi, set) == \A k \in lo..hi : s[k] \in set

\* The positions at which '$' matches: the end of the string, and just
\* before a newline that is the last character.
DollarEnds(s) ==
  {Len(s)} \cup (IF Len(s) > 0 /\ s[Len(s)] = "\n" THEN {Len(s) - 1} ELSE {})

\* re.match(r'^[a-zA-Z0-9._%+-]+@[a-zA-Z0-9.-]+\.[a-zA-Z]{2,}$', email):
\* at is the '@', dot the literal '.', e the position where '$' matches.
validate_email_format(email) ==
  \E e \in DollarEnds(email) :
    \E at \in 1..e : \E dot \in 1..e :
      /\ at >= 2
      /\ email[at] = "@"
      /\ AllIn(email, 1, at - 1, LocalChars)
      /\ dot >= at + 2
      /\ email[dot] = "."
      /\ AllIn(email, at + 1, dot - 1, DomainChars)
      /\ e >= dot + 2
      /\ AllIn(email, dot + 1, e, Letters)

\* str.strip()
RECURSIVE LStrip(_)
LStrip(s) ==
  IF s # <<>> /\ Head(s) \in Whitespace THEN LStrip(Tail(s)) ELSE s
RECURSIVE RStrip(_)
RStrip(s) ==
  IF s # <<>> /\ s[Len(s)] \in Whitespace
  THEN RStrip(SubSeq(s, 1, Len(s) - 1)) ELSE s
Strip(s) == RStrip(LStrip(s))

\* str(r.exchange).rstrip('.')
RECURSIVE RStripDot(_)
RStripDot(s) ==
  IF s # <<>> /\ s[Len(s)] = "."
  THEN RStripDot(SubSeq(s, 1, Len(s) - 1)) ELSE s

\* email.split('@')[1]: the text between the first '@' and the next one (or
\* the end).  Only called on text that holds an '@'.
AtPositions(s) == {k \in 1..Len(s) : s[k] = "@"}
Min(S) == CHOOSE m \in S : \A x \in S : m <= x
SplitAt1(s) ==
  LET first == Min(AtPositions(s))
      later == {k \in AtPositions(s) : k > first}
      stop  == IF later = {} THEN Len(s) + 1 ELSE Min(later)
  IN  SubSeq(s, first + 1, stop - 1)

\* -------------------------------------------------------------------- DNS
\* sorted(..., key=lambda x: x[0]): a stable sort by preference, built by
\* inserting each record behind the records whose preference is not larger.
\* Mutant of InsertByPref: a record goes in front of the records of its own
\* preference (the sort is not stable).
RECURSIVE InsertByPref_TiesFirst(_, _)
InsertByPref_TiesFirst(s, r) ==
  IF s = <<>> THEN <<r>>
  ELSE IF Head(s).preference < r.preference
       THEN <<Head(s)>> \o InsertByPref_TiesFirst(Tail(s), r)
       ELSE <<r>> \o s

RECURSIVE InsertByPref(_, _)
InsertByPref(s, r) ==
  IF s = <<>> THEN <<r>>
  ELSE IF Head(s).preference <= r.preference
       THEN <<Head(s)>> \o InsertByPref(Tail(s), r)
       ELSE <<r>> \o s
RECURSIVE SortedByPref(_)
SortedByPref(s) ==
  IF s = <<>> THEN <<>>
  ELSE InsertByPref(SortedByPref(SubSeq(s, 1, Len(s) - 1)), s[Len(s)])

\* What dns.resolver.resolve(domain, 'MX') can do: raise, or answer with MX
\* records (preference, exchange).  Exchange names are absolute (trailing
\* root dot) or relative.  What it does follows what the DNS publishes for
\* the domain (the zone: no such domain, no MX record, or some MX records),
\* unless the query itself fails.
DnsExceptions == {"NXDOMAIN", "NoNameservers", "NoAnswer", "Timeout"}
TransientDnsExceptions == {"NoNameservers", "Timeout"}
MxPool ==
  { [preference |-> 10, exchange |-> <<"m", "x", ".">>],
    [preference |-> 10, exchange |-> <<"a", "l", "t">>],
    [preference |-> 20, exchange |-> <<"b", "k", ".">>] }
RECURSIVE SeqsUpTo(_, _)
SeqsUpTo(S, n) ==
  IF n = 0 THEN {<<>>}
  ELSE LET shorter == SeqsUpTo(S, n - 1)
       IN  shorter \cup {Append(q, x) : q \in {t \in shorter : Len(t) = n - 1}, x \in S}
DnsAnswers == SeqsUpTo(MxPool, MaxMx) \ {<<>>}
DnsRaises(x) == [raises |-> x, records |-> <<>>]
ZoneContents ==
  {[exists |-> FALSE, mx |-> <<>>], [exists |-> TRUE, mx |-> <<>>]}
    \cup {[exists |-> TRUE, mx |-> a] : a \in DnsAnswers}
ZoneOutcome(z) ==
  IF ~z.exists THEN DnsRaises("NXDOMAIN")
  ELSE IF z.mx = <<>> THEN DnsRaises("NoAnswer")
  ELSE [raises |-> "none", records |-> z.mx]
\* The outcomes of one query for a domain whose zone is z.
DnsOutcomes(z) ==
  {ZoneOutcome(z)} \cup {DnsRaises(x) : x \in TransientDnsExceptions}

\* Mutant of MxExceptClause: the final 'except Exception' is missing.
MxExceptClause_NoCatchAll(x) ==
  IF x \in {"NXDOMAIN", "NoNameservers"} THEN 1
  ELSE IF x = "NoAnswer" THEN 2
  ELSE 0

\* The resolver object the query of line 43 goes through: the function
\* dns.resolver.resolve of the module uses the library's default resolver,
\* not the Resolver that __init__ stored in self.dns_resolver.
QueryResolver == "dns.resolver.default"

\* The except clause of get_mx_records that catches x (0: none does).
MxExceptClause(x) ==
  IF x \in {"NXDOMAIN", "NoNameservers"} THEN 1
  ELSE IF x = "NoAnswer" THEN 2
  ELSE 3

\* Mutant of get_mx_records: a domain without MX answer falls back to a host
\* of its own (the implicit MX of mail routing).
get_mx_records_ImplicitMx(outcome) ==
  IF outcome.raises = "none"
  THEN LET mx_hosts == SortedByPref(
                         [k \in 1..Len(outcome.records) |->
                            [preference |-> outcome.records[k].preference,
                             host |-> RStripDot(outcome.records[k].exchange)]])
       IN  [escapes |-> FALSE,
            value |-> [k \in 1..Len(mx_hosts) |-> mx_hosts[k].host]]
  ELSE IF outcome.raises = "NoAnswer"
       THEN [escapes |-> FALSE, value |-> << <<"b", ".", "c", "o">> >>]
       ELSE [escapes |-> MxExceptClause(outcome.raises) = 0, value |-> <<>>]

\* get_mx_records on the resolver's outcome: the value returned, and whether
\* an exception leaves the function.
get_mx_records(outcome) ==
  IF outcome.raises = "none"
  THEN LET mx_hosts == SortedByPref(
                         [k \in 1..Len(outcome.records) |->
                            [preference |-> outcome.records[k].preference,
                             host |-> RStripDot(outcome.records[k].exchange)]])
       IN  [escapes |-> FALSE,
            value |-> [k \in 1..Len(mx_hosts) |-> mx_hosts[k].host]]
  ELSE [escapes |-> MxExceptClause(outcome.raises) = 0, value |-> <<>>]

\* ------------------------------------------------------------------- SMTP
\* What a call of smtplib.SMTP can do: return the server's reply code, or
\* raise.
SmtpExceptions == {"SMTPServerDisconnected", "SMTPConnectError", "timeout", "OSError"}
GreetCodes == {220}
HeloCodes == {250, 550}
MailCodes == {250, 550}
RcptCodes == {250, 251, 252, 450, 550}
QuitCodes == {221}

Ret(valid, tag, code, err) ==
  [valid |-> valid, tag |-> tag, code |-> code, err |-> err]
NoRet == Ret(FALSE, "", <<>>, "none")

\* smtp_verify after RCPT TO and QUIT returned: the verdict on the code.
Verdict(code) ==
  IF code = 250 \/ code = 251
  THEN Ret(TRUE, "exists", <<>>, "none")
  ELSE Ret(FALSE, "not_found", <<code>>, "none")

\* Mutant of SmtpExceptClause: the final 'except Exception' is missing.
SmtpExceptClause_NoCatchAll(x) ==
  IF x = "SMTPServerDisconnected" THEN 1
  ELSE IF x = "SMTPConnectError" THEN 2
  ELSE 0

\* The except clause of smtp_verify that catches x (0: none does).
SmtpExceptClause(x) ==
  IF x = "SMTPServerDisconnected" THEN 1
  ELSE IF x = "SMTPConnectError" THEN 2
  ELSE 3

\* What the probe returns when a call inside the try raised x.
SmtpExcept(x) ==
  IF SmtpExceptClause(x) = 1 THEN Ret(FALSE, "disconnected", <<>>, "none")
  ELSE IF SmtpExceptClause(x) = 2 THEN Ret(FALSE, "connect_failed", <<>>, "none")
  ELSE Ret(FALSE, "smtp_error", <<>>, x)

\* smtplib closes the socket itself before it raises SMTPServerDisconnected;
\* smtp_verify closes nothing in its except clauses.
SockAfterRaise(x, s) == IF x = "SMTPServerDisconnected" /\ s = "open" THEN "closed" ELSE s

HeloName == "polza-validator.com"
MailFrom == "validator@polza-validator.com"
Cmd(name, arg) == [cmd |-> name, arg |-> arg]

\* ------------------------------------------------------------------ state
VARIABLES
  zone,            \* the DNS: what is published for each domain
  file,            \* test_emails.txt: whether it exists, and its lines
  emails,          \* main: the stripped non-blank lines
  validator,       \* main: the EmailValidator object (its fields)
  idx,             \* main: position of the for loop in emails (1-based)
  results,         \* main: the list of result dicts
  counts,          \* main: the three summary counts printed, once computed
  pc,              \* the statement the program is at
  result,          \* validate_email: the result dict under construction
  domain,          \* validate_email: local
  mx_records,      \* validate_email: local
  smtp_ret,        \* validate_email: (smtp_valid, smtp_msg) as returned by smtp_verify
  sock,            \* smtp_verify: the socket of server ("none", "open", "closed")
  cmds,            \* the SMTP commands issued in this call of validate_email
  replies,         \* the reply codes received to them
  raised,          \* the exception raised inside smtp_verify's try ("none")
  dnsLog,          \* the outcomes of the MX queries made in this call
  probed,          \* the hosts smtp_verify was called with in this call
  tg               \* telegram_sender.py: its environment, position and locals

vars == <<zone, file, emails, validator, idx, results, counts, pc, result, domain,
          mx_records, smtp_ret, sock, cmds, replies, raised, dnsLog, probed, tg>>

mainVars == <<zone, file, emails, validator, idx, results, counts, tg>>
probeVars == <<smtp_ret, sock, cmds, replies, raised, probed>>

LinePool ==
  { <<"a", "@", "b", ".", "c", "o", "\n">>,
    <<" ", "a", "b", "\n">>,
    <<"\n">> }
Files ==
  {[exists |-> FALSE, lines |-> <<>>]}
    \cup {[exists |-> TRUE, lines |-> l] : l \in SeqsUpTo(LinePool, MaxBatch)}

\* [line.strip() for line in f if line.strip()]
RECURSIVE StrippedLines(_)
StrippedLines(lines) ==
  IF lines = <<>> THEN <<>>
  ELSE (IF Strip(Head(lines)) # <<>> THEN <<Strip(Head(lines))>> ELSE <<>>)
         \o StrippedLines(Tail(lines))

\* The domains of the well-formed addresses of the input; a domain the DNS
\* holds nothing for does not exist.
Domains ==
  {SplitAt1(Strip(l)) : l \in {x \in LinePool : validate_email_format(Strip(x))}}
ZoneOf(d) == IF d \in DOMAIN zone THEN zone[d] ELSE [exists |-> FALSE, mx |-> <<>>]

\* --------------------------------------------------------- telegram sender
\* message.txt: missing, or a file whose bytes decode as UTF-8 or not.
MsgAlphabet == {"x", " ", "\n"}
MsgTexts == UNION {[1..n -> MsgAlphabet] : n \in 0..MaxText}
NoMsgFile == [exists |-> FALSE, decodable |-> TRUE, content |-> <<>>]
MsgFiles ==
  {NoMsgFile}
    \cup {[exists |-> TRUE, decodable |-> d, content |-> c] : d \in BOOLEAN, c \in MsgTexts}
\* The text main writes into a message.txt it had to create (lines 154-157).
SampleText == <<"x", "\n", "x">>
\* os.getenv: None ("unset"), the empty string, or a value.
TokenValues == {"unset", "", "123:abc"}
ChatValues == {"unset", "", "42"}
Truthy(v) == v \notin {"unset", ""}

TgState(at, token, chat, f) ==
  [pc |-> at, bot_token |-> token, chat_id |-> chat, file |-> f,
   connected |-> FALSE, text |-> <<>>, api |-> <<>>, ret |-> <<>>]
\* The sender is not running.
TgOff == TgState("off", "unset", "unset", NoMsgFile)

NoMsg == [tag |-> "", code |-> <<>>, err |-> "none", via |-> <<>>]

\* Mutant of NewResult: domain_exists starts out true.
NewResult_DomainDefaultTrue(email) ==
  [email |-> email, valid_format |-> FALSE, domain_exists |-> TRUE,
   mx_records |-> <<>>, smtp_check |-> FALSE, status |-> "", details |-> NoMsg]

\* validate_email, lines 97-105: the result dict at its defaults.
NewResult(email) ==
  [email |-> email, valid_format |-> FALSE, domain_exists |-> FALSE,
   mx_records |-> <<>>, smtp_check |-> FALSE, status |-> "", details |-> NoMsg]
NoResult == NewResult(<<>>)

Init ==
  /\ zone \in [Domains -> ZoneContents]
  /\ file \in Files
  /\ emails = <<>>
  /\ validator = [made |-> FALSE, timeout |-> 0,
                  dns_resolver |-> [timeout |-> 0, lifetime |-> 0]]
  /\ idx = 1
  /\ results = <<>>
  /\ counts = <<>>
  /\ pc = "start"
  /\ result = NoResult
  /\ domain = <<>>
  /\ mx_records = <<>>
  /\ smtp_ret = NoRet
  /\ sock = "none"
  /\ cmds = <<>>
  /\ replies = <<>>
  /\ raised = "none"
  /\ dnsLog = <<>>
  /\ probed = <<>>
  /\ tg = TgOff

\* EmailValidator.__init__(timeout)
NewValidator(timeout) ==
  [made |-> TRUE, timeout |-> timeout,
   dns_resolver |-> [timeout |-> 5, lifetime |-> 5]]

\* main, lines 173-189: read the file, return if it is missing or holds no
\* address, else create the validator.
ReadFile ==
  /\ pc = "start"
  /\ IF ~file.exists
     THEN /\ pc' = "done"
          /\ UNCHANGED <<emails, validator>>
     ELSE /\ emails' = StrippedLines(file.lines)
          /\ IF emails' = <<>>
             THEN /\ pc' = "done"
                  /\ UNCHANGED validator
             ELSE /\ pc' = "loop"
                  /\ validator' = NewValidator(10)
  /\ UNCHANGED <<zone, file, idx, results, counts, result, domain, mx_records,
                 dnsLog, tg>>
  /\ UNCHANGED probeVars

\* Mutant of LoopNext: the MX list and the probe's return value are kept on
\* the validator from one call to the next instead of being locals.
LoopNext_KeepsLocals ==
  /\ pc = "loop"
  /\ IF idx <= Len(emails)
     THEN /\ result' = NewResult(emails[idx])
          /\ pc' = "format"
     ELSE /\ result' = result
          /\ pc' = "stats"
  /\ domain' = <<>>
  /\ sock' = "none"
  /\ cmds' = <<>>
  /\ replies' = <<>>
  /\ raised' = "none"
  /\ dnsLog' = <<>>
  /\ probed' = <<>>
  /\ UNCHANGED <<mx_records, smtp_ret>>
  /\ UNCHANGED mainVars

\* main, lines 193-195: the next address enters validate_email (lines 97-105),
\* or the loop ends.
LoopNext ==
  /\ pc = "loop"
  /\ IF idx <= Len(emails)
     THEN /\ result' = NewResult(emails[idx])
          /\ pc' = "format"
     ELSE /\ result' = result
          /\ pc' = "stats"
  /\ domain' = <<>>
  /\ mx_records' = <<>>
  /\ smtp_ret' = NoRet
  /\ sock' = "none"
  /\ cmds' = <<>>
  /\ replies' = <<>>
  /\ raised' = "none"
  /\ dnsLog' = <<>>
  /\ probed' = <<>>
  /\ UNCHANGED mainVars

\* Mutant of CheckFormat: the 'return result' of line 111 is missing.
CheckFormat_FallsThrough ==
  /\ pc = "format"
  /\ IF ~validate_email_format(result.email)
     THEN /\ result' = [result EXCEPT !.status = "InvalidFormat",
                                      !.details = [NoMsg EXCEPT !.tag = "bad_format"]]
          /\ domain' = domain
          /\ pc' = "mx"
     ELSE /\ result' = [result EXCEPT !.valid_format = TRUE]
          /\ domain' = SplitAt1(result.email)
          /\ pc' = "mx"
  /\ UNCHANGED <<mx_records, dnsLog>>
  /\ UNCHANGED mainVars
  /\ UNCHANGED probeVars

\* validate_email, lines 107-114.
CheckFormat ==
  /\ pc = "format"
  /\ IF ~validate_email_format(result.email)
     THEN /\ result' = [result EXCEPT !.status = "InvalidFormat",
                                      !.details = [NoMsg EXCEPT !.tag = "bad_format"]]
          /\ domain' = domain
          /\ pc' = "return"
     ELSE /\ result' = [result EXCEPT !.valid_format = TRUE]
          /\ domain' = SplitAt1(result.email)
          /\ pc' = "mx"
  /\ UNCHANGED <<mx_records, dnsLog>>
  /\ UNCHANGED mainVars
  /\ UNCHANGED probeVars

\* validate_email, lines 116-125, with get_mx_records (lines 35-56).
GetMx ==
  /\ pc = "mx"
  /\ \E outcome \in DnsOutcomes(ZoneOf(domain)) :
       LET got == get_mx_records(outcome) IN
       /\ dnsLog' = Append(dnsLog, [raises |-> outcome.raises,
                                     records |-> outcome.records,
                                     resolver |-> QueryResolver])
       /\ IF got.escapes
          THEN /\ pc' = "crashed"
               /\ UNCHANGED <<result, mx_records>>
          ELSE /\ mx_records' = got.value
               /\ IF got.value = <<>>
                  THEN /\ result' = [result EXCEPT !.status = "NoMxRecords",
                                                   !.details = [NoMsg EXCEPT !.tag = "no_mx",
                                                                             !.via = domain]]
                       /\ pc' = "return"
                  ELSE /\ result' = [result EXCEPT !.domain_exists = TRUE,
                                                   !.mx_records = got.value]
                       /\ pc' = "connect"
  /\ UNCHANGED domain
  /\ UNCHANGED mainVars
  /\ UNCHANGED probeVars

\* One call on the SMTP object inside smtp_verify's try: the command goes
\* out, and either a reply code comes back and the probe moves on, or the
\* call raises and the matching except clause returns from smtp_verify.
SmtpCall(name, arg, codes, sockOnReply, pcOnReply) ==
  /\ cmds' = Append(cmds, Cmd(name, arg))
  /\ \/ \E c \in codes :
          /\ replies' = Append(replies, c)
          /\ sock' = sockOnReply
          /\ pc' = pcOnReply
          /\ UNCHANGED <<raised, smtp_ret>>
     \/ \E x \in SmtpExceptions :
          /\ raised' = x
          /\ sock' = SockAfterRaise(x, sock)
          /\ replies' = replies
          /\ IF SmtpExceptClause(x) = 0
             THEN /\ pc' = "crashed"
                  /\ smtp_ret' = smtp_ret
             ELSE /\ pc' = "classify"
                  /\ smtp_ret' = SmtpExcept(x)

\* Mutant of SmtpConnect: the probe goes to the last MX host of the list.
SmtpConnect_LastMx ==
  /\ pc = "connect"
  /\ probed' = Append(probed, mx_records[Len(mx_records)])
  /\ SmtpCall("CONNECT", mx_records[Len(mx_records)], GreetCodes, "open", "helo")
  /\ UNCHANGED <<result, domain, mx_records, dnsLog>>
  /\ UNCHANGED mainVars

\* validate_email, lines 128-129, and smtp_verify, lines 67-69:
\* smtplib.SMTP(timeout), server.connect(mx_host) on the first MX host.
SmtpConnect ==
  /\ pc = "connect"
  /\ probed' = Append(probed, mx_records[1])
  /\ SmtpCall("CONNECT", mx_records[1], GreetCodes, "open", "helo")
  /\ UNCHANGED <<result, domain, mx_records, dnsLog>>
  /\ UNCHANGED mainVars

\* smtp_verify, line 70: server.helo(...), its reply not looked at.
SmtpHelo ==
  /\ pc = "helo"
  /\ SmtpCall("HELO", HeloName, HeloCodes, sock, "mail")
  /\ UNCHANGED <<result, domain, mx_records, dnsLog, probed>>
  /\ UNCHANGED mainVars

\* smtp_verify, line 71: server.mail(...), its reply not looked at.
SmtpMail ==
  /\ pc = "mail"
  /\ SmtpCall("MAIL", MailFrom, MailCodes, sock, "rcpt")
  /\ UNCHANGED <<result, domain, mx_records, dnsLog, probed>>
  /\ UNCHANGED mainVars

\* smtp_verify, line 74: code, message = server.rcpt(email).
SmtpRcpt ==
  /\ pc = "rcpt"
  /\ SmtpCall("RCPT", result.email, RcptCodes, sock, "quit")
  /\ UNCHANGED <<result, domain, mx_records, dnsLog, probed>>
  /\ UNCHANGED mainVars

\* The code the server gave to RCPT TO (the local code of smtp_verify).
RcptCode == replies[4]

\* Mutant of SmtpQuit: the message is started (DATA) before the session is
\* closed.
SmtpQuit_SendsData ==
  /\ pc = "quit"
  /\ cmds' = cmds \o <<Cmd("DATA", ""), Cmd("QUIT", "")>>
  /\ \/ \E c \in QuitCodes :
          /\ replies' = Append(replies, c)
          /\ sock' = "closed"
          /\ smtp_ret' = Verdict(RcptCode)
          /\ pc' = "classify"
          /\ UNCHANGED raised
     \/ \E x \in SmtpExceptions :
          /\ raised' = x
          /\ sock' = SockAfterRaise(x, sock)
          /\ replies' = replies
          /\ pc' = "classify"
          /\ smtp_ret' = SmtpExcept(x)
  /\ UNCHANGED <<result, domain, mx_records, dnsLog, probed>>
  /\ UNCHANGED mainVars

\* smtp_verify, lines 75-81: server.quit() inside the try, then the verdict
\* on code.  smtplib's quit() closes the socket.
SmtpQuit ==
  /\ pc = "quit"
  /\ cmds' = Append(cmds, Cmd("QUIT", ""))
  /\ \/ \E c \in QuitCodes :
          /\ replies' = Append(replies, c)
          /\ sock' = "closed"
          /\ smtp_ret' = Verdict(RcptCode)
          /\ pc' = "classify"
          /\ UNCHANGED raised
     \/ \E x \in SmtpExceptions :
          /\ raised' = x
          /\ sock' = SockAfterRaise(x, sock)
          /\ replies' = replies
          /\ IF SmtpExceptClause(x) = 0
             THEN /\ pc' = "crashed"
                  /\ smtp_ret' = smtp_ret
             ELSE /\ pc' = "classify"
                  /\ smtp_ret' = SmtpExcept(x)
  /\ UNCHANGED <<result, domain, mx_records, dnsLog, probed>>
  /\ UNCHANGED mainVars

\* Mutant of Classified: both branches set the status of a confirmed mailbox.
Classified_SameStatus(res, ret, primary_mx) ==
  IF ret.valid
  THEN [res EXCEPT !.smtp_check = ret.valid,
                   !.status = "MailboxConfirmed",
                   !.details = [NoMsg EXCEPT !.tag = "confirmed", !.via = primary_mx]]
  ELSE [res EXCEPT !.smtp_check = ret.valid,
                   !.status = "MailboxConfirmed",
                   !.details = [tag |-> ret.tag, code |-> ret.code,
                                err |-> ret.err, via |-> primary_mx]]

\* validate_email, lines 130-139.
Classified(res, ret, primary_mx) ==
  IF ret.valid
  THEN [res EXCEPT !.smtp_check = ret.valid,
                   !.status = "MailboxConfirmed",
                   !.details = [NoMsg EXCEPT !.tag = "confirmed", !.via = primary_mx]]
  ELSE [res EXCEPT !.smtp_check = ret.valid,
                   !.status = "MailboxRejected",
                   !.details = [tag |-> ret.tag, code |-> ret.code,
                                err |-> ret.err, via |-> primary_mx]]

Classify ==
  /\ pc = "classify"
  /\ result' = Classified(result, smtp_ret, mx_records[1])
  /\ pc' = "return"
  /\ UNCHANGED <<domain, mx_records, dnsLog>>
  /\ UNCHANGED mainVars
  /\ UNCHANGED probeVars

\* main, line 196: results.append(result), and on to the next address.
AppendResult ==
  /\ pc = "return"
  /\ results' = Append(results, result)
  /\ idx' = idx + 1
  /\ pc' = "loop"
  /\ UNCHANGED <<zone, file, emails, validator, counts, result, domain, mx_records,
                 dnsLog, tg>>
  /\ UNCHANGED probeVars

\* main, lines 200-207.
\* valid_count, line 202
CountSmtpChecked(rs) == Cardinality({i \in 1..Len(rs) : rs[i].smtp_check})
\* Mutant of CountDomainValid: the confirmed mailboxes are left out.
CountDomainValid_Unconfirmed(rs) ==
  Cardinality({i \in 1..Len(rs) : rs[i].domain_exists /\ ~rs[i].smtp_check})

\* mx_valid_count, line 203
CountDomainValid(rs) == Cardinality({i \in 1..Len(rs) : rs[i].domain_exists})

\* The three numbers printed by lines 205-207: valid_count, mx_valid_count,
\* len(emails) - mx_valid_count.
SummaryCounts(rs, mails) ==
  <<CountSmtpChecked(rs), CountDomainValid(rs), Len(mails) - CountDomainValid(rs)>>
Summary ==
  /\ pc = "stats"
  /\ counts' = SummaryCounts(results, emails)
  /\ pc' = "done"
  /\ UNCHANGED <<zone, file, emails, validator, idx, results, result, domain,
                 mx_records, dnsLog, tg>>
  /\ UNCHANGED probeVars

Next ==
  \/ ReadFile
  \/ LoopNext
  \/ CheckFormat
  \/ GetMx
  \/ SmtpConnect
  \/ SmtpHelo
  \/ SmtpMail
  \/ SmtpRcpt
  \/ SmtpQuit
  \/ Classify
  \/ AppendResult
  \/ Summary

Spec == Init /\ [][Next]_vars

\* One call of validate_email by a caller of its own, on any text (main only
\* passes stripped lines): the characters that matter to the pattern, and
\* the DNS holding anything for the domain the text names.
FormatAlphabet == {"a", "@", ".", " ", "\n"}
Texts == UNION {[1..n -> FormatAlphabet] : n \in 0..MaxLen}
CallDomains(email) ==
  IF validate_email_format(email) THEN {SplitAt1(email)} ELSE {}

InitCall ==
  /\ \E email \in Texts :
       /\ emails = <<email>>
       /\ result = NewResult(email)
       /\ zone \in [CallDomains(email) -> ZoneContents]
  /\ file = [exists |-> FALSE, lines |-> <<>>]
  /\ validator = NewValidator(10)
  /\ idx = 1
  /\ results = <<>>
  /\ counts = <<>>
  /\ pc = "format"
  /\ domain = <<>>
  /\ mx_records = <<>>
  /\ smtp_ret = NoRet
  /\ sock = "none"
  /\ cmds = <<>>
  /\ replies = <<>>
  /\ raised = "none"
  /\ dnsLog = <<>>
  /\ probed = <<>>
  /\ tg = TgOff

NextCall ==
  \/ CheckFormat
  \/ GetMx
  \/ SmtpConnect
  \/ SmtpHelo
  \/ SmtpMail
  \/ SmtpRcpt
  \/ SmtpQuit
  \/ Classify

SpecCall == InitCall /\ [][NextCall]_vars

\* ------------------------------------------------ telegram_sender.py: main
validatorVars == <<zone, file, emails, validator, idx, results, counts, pc, result,
                   domain, mx_records, smtp_ret, sock, cmds, replies, raised, dnsLog,
                   probed>>

\* main, line 125: not bot_token or not chat_id
ConfigMissing(token, chat) == ~Truthy(token) \/ ~Truthy(chat)

\* main, lines 120-137: read the settings, return without them, else create
\* the sender.
TgConfig ==
  /\ tg.pc = "start"
  /\ tg' = [tg EXCEPT !.pc = IF ConfigMissing(tg.bot_token, tg.chat_id)
                             THEN "done" ELSE "test"]
  /\ UNCHANGED validatorVars

\* Mutant of SendExceptClause: send_message without its catch-all clause.
SendExceptClause_NoCatchAll(exc) ==
  IF exc = "TelegramError" THEN "TelegramError" ELSE "propagate"

\* What a call of the bot API can do: succeed, raise a TelegramError, or
\* raise something else.
ApiOutcomes == {"ok", "TelegramError", "Exception"}
ApiCall(name, text, outcome) == [call |-> name, text |-> text, outcome |-> outcome]

\* The except clause of test_connection that takes an exception (line 108):
\* TelegramError only.
TestExceptClause(exc) == IF exc = "TelegramError" THEN "TelegramError" ELSE "propagate"

\* main, lines 139-142, with test_connection (lines 99-110).
TgTestConnection ==
  /\ tg.pc = "test"
  /\ \E outcome \in ApiOutcomes :
       tg' = [tg EXCEPT !.api = Append(@, ApiCall("get_me", <<>>, outcome)),
                        !.connected = (outcome = "ok"),
                        !.pc = IF outcome = "ok" THEN "file"
                               ELSE IF TestExceptClause(outcome) = "propagate"
                                    THEN "crashed"
                                    ELSE "done"]
  /\ UNCHANGED validatorVars

\* main, lines 146-159: create message.txt with the sample text when it does
\* not exist.
TgEnsureFile ==
  /\ tg.pc = "file"
  /\ tg' = [tg EXCEPT !.file = IF tg.file.exists THEN @
                               ELSE [exists |-> TRUE, decodable |-> TRUE,
                                     content |-> SampleText],
                      !.pc = "read"]
  /\ UNCHANGED validatorVars

\* What open() and read() of send_from_file can do on the file.
ReadOutcomes(f) ==
  {"FileNotFoundError", "PermissionError"}
    \cup (IF f.exists THEN (IF f.decodable THEN {"ok"} ELSE {"UnicodeDecodeError"}) ELSE {})

\* The exceptions open() and read() can raise in send_from_file.
ReadExceptions == {"FileNotFoundError", "UnicodeDecodeError", "PermissionError"}
\* The except clause of send_from_file that takes an exception (lines 89-97).
FileExceptClause(exc) ==
  IF exc \in {"FileNotFoundError", "UnicodeDecodeError"} THEN exc ELSE "Exception"

\* The except clause of send_message that takes an exception (lines 56-61).
SendExceptClause(exc) == IF exc = "TelegramError" THEN "TelegramError" ELSE "Exception"

\* send_from_file, lines 73-84 and 89-97: read and strip the file; return
\* False when that raises or the text is empty.
TgReadFile ==
  /\ tg.pc = "read"
  /\ \E outcome \in ReadOutcomes(tg.file) :
       IF outcome \in ReadExceptions
       THEN tg' = [tg EXCEPT !.ret = IF FileExceptClause(outcome) = "propagate"
                                     THEN <<>> ELSE <<FALSE>>,
                             !.pc = IF FileExceptClause(outcome) = "propagate"
                                    THEN "crashed" ELSE "report"]
       ELSE LET text == Strip(tg.file.content) IN
            IF text = <<>>
            THEN tg' = [tg EXCEPT !.text = text, !.ret = <<FALSE>>, !.pc = "report"]
            ELSE tg' = [tg EXCEPT !.text = text, !.pc = "send"]
  /\ UNCHANGED validatorVars

\* send_from_file, line 87, with send_message (lines 32-61): one call of the
\* bot API, every exception caught.
TgSendMessage ==
  /\ tg.pc = "send"
  /\ \E outcome \in ApiOutcomes :
       tg' = [tg EXCEPT !.api = Append(@, ApiCall("send_message", tg.text, outcome)),
                        !.ret = IF outcome = "ok" THEN <<TRUE>>
                                ELSE IF SendExceptClause(outcome) = "propagate"
                                     THEN <<>> ELSE <<FALSE>>,
                        !.pc = IF outcome # "ok" /\ SendExceptClause(outcome) = "propagate"
                               THEN "crashed" ELSE "report"]
  /\ UNCHANGED validatorVars

\* main, lines 162-171: report the outcome.
TgReport ==
  /\ tg.pc = "report"
  /\ tg' = [tg EXCEPT !.pc = "done"]
  /\ UNCHANGED validatorVars

InitTg ==
  /\ tg \in {TgState("start", t, c, f) : t \in TokenValues, c \in ChatValues, f \in MsgFiles}
  /\ zone = [d \in Domains |-> [exists |-> FALSE, mx |-> <<>>]]
  /\ file = [exists |-> FALSE, lines |-> <<>>]
  /\ emails = <<>>
  /\ validator = [made |-> FALSE, timeout |-> 0,
                  dns_resolver |-> [timeout |-> 0, lifetime |-> 0]]
  /\ idx = 1
  /\ results = <<>>
  /\ counts = <<>>
  /\ pc = "off"
  /\ result = NoResult
  /\ domain = <<>>
  /\ mx_records = <<>>
  /\ smtp_ret = NoRet
  /\ sock = "none"
  /\ cmds = <<>>
  /\ replies = <<>>
  /\ raised = "none"
  /\ dnsLog = <<>>
  /\ probed = <<>>

NextTg ==
  \/ TgConfig
  \/ TgTestConnection
  \/ TgEnsureFile
  \/ TgReadFile
  \/ TgSendMessage
  \/ TgReport

SpecTg == InitTg /\ [][NextTg]_vars

TypeOK ==
  /\ pc \in {"start", "loop", "format", "mx", "connect", "helo", "mail", "rcpt",
             "quit", "classify", "return", "stats", "done", "crashed", "off"}
  /\ sock \in {"none", "open", "closed"}
  /\ idx \in 1..(Len(emails) + 1)
  /\ Len(results) <= Len(emails)

\* ----------------------------------------------------------------- claims
\* validate_email has returned: its result is about to be appended.
Returned == pc = "return"
\* smtp_verify has returned to validate_email.
ProbeReturned == pc \in {"classify", "return"} /\ probed # <<>>
\* The names of the commands issued, in order.
CmdNames == [k \in 1..Len(cmds) |-> cmds[k].cmd]
IsPrefix(s, t) == Len(s) <= Len(t) /\ \A k \in 1..Len(s) : s[k] = t[k]
Is2xx(c) == c >= 200 /\ c <= 299
Accepted(ret) == ret.valid /\ ret.tag = "exists"

ResultInvariant(r) ==
  /\ r.smtp_check => r.domain_exists
  /\ r.domain_exists => r.valid_format
  /\ (r.mx_records # <<>>) <=> r.domain_exists

\* C1: every result validate_email returns (and so every result in the
\* batch's list) has smtp_check => domain_exists, domain_exists =>
\* valid_format, and mx_records non-empty exactly when domain_exists.
C1_ResultInvariants ==
  /\ Returned => ResultInvariant(result)
  /\ \A i \in 1..Len(results) : ResultInvariant(results[i])

\* C1 witness: a batch whose results cover a confirmed mailbox and an
\* address that got no further than the format check.
C1_Witness ==
  /\ Len(results) = 2
  /\ results[1].smtp_check
  /\ ~results[2].valid_format

\* C2: no failure of a single address escapes validate_email or ends the
\* loop: the program never crashes, the i-th result carries the i-th
\* address, and when the loop is over there is one result per address.
C2_OneResultPerAddress ==
  /\ pc # "crashed"
  /\ Len(results) = idx - 1
  /\ \A i \in 1..Len(results) : results[i].email = emails[i]
  /\ pc \in {"stats", "done"} /\ emails # <<>> => Len(results) = Len(emails)

\* C2 witness: a finished batch of two whose first address failed inside the
\* probe with an error and whose second address was still validated.
C2_Witness ==
  /\ pc = "done"
  /\ Len(results) = 2
  /\ results[1].details.tag = "smtp_error"
  /\ results[2].status # ""

\* C3: when the format check fails, validate_email is at its return with
\* status InvalidFormat and every other field at its default, and no MX
\* query and no SMTP command has been made for the address.
C3_InvalidFormatShortCircuits ==
  /\ pc \in {"mx", "connect", "helo", "mail", "rcpt", "quit", "classify", "return"}
       /\ ~validate_email_format(result.email)
     => /\ pc = "return"
        /\ result.status = "InvalidFormat"
        /\ ~result.valid_format
        /\ ~result.domain_exists
        /\ result.mx_records = <<>>
        /\ ~result.smtp_check
        /\ dnsLog = <<>>
        /\ probed = <<>>
        /\ cmds = <<>>
  /\ \A i \in 1..Len(results) :
       ~validate_email_format(results[i].email)
         => results[i] = [NewResult(results[i].email) EXCEPT
                            !.status = "InvalidFormat",
                            !.details = results[i].details]

\* C3 witness: validate_email returning on an ill-formed address.
C3_Witness ==
  /\ Returned
  /\ ~validate_email_format(result.email)
  /\ result.status = "InvalidFormat"

\* The MX query of this call ended without a usable record: the resolver
\* raised, or get_mx_records returned the empty list.
MxCameBackEmpty ==
  /\ pc \in {"connect", "helo", "mail", "rcpt", "quit", "classify", "return"}
  /\ dnsLog # <<>>
  /\ dnsLog[Len(dnsLog)].raises # "none" \/ mx_records = <<>>

\* C4: a well-formed address whose MX resolution comes back empty, for
\* whatever reason, returns NoMxRecords with valid_format true,
\* domain_exists false, no MX records and smtp_check false, and no SMTP
\* connection is opened.
C4_NoMxShortCircuits ==
  MxCameBackEmpty
    => /\ pc = "return"
       /\ result.status = "NoMxRecords"
       /\ result.valid_format
       /\ ~result.domain_exists
       /\ result.mx_records = <<>>
       /\ ~result.smtp_check
       /\ probed = <<>>
       /\ cmds = <<>>
       /\ sock = "none"

\* C4 witness: the resolver found the domain but no MX answer.
C4_Witness ==
  /\ Returned
  /\ dnsLog # <<>>
  /\ dnsLog[1].raises = "NoAnswer"
  /\ result.status = "NoMxRecords"

\* C5: with a non-empty MX list, the status is MailboxConfirmed with
\* smtp_check true exactly when the probe's outcome is Accepted; any other
\* outcome gives smtp_check false and MailboxRejected.
C5_StatusFollowsProbe ==
  Returned /\ mx_records # <<>>
    => /\ Accepted(smtp_ret) <=> result.smtp_check /\ result.status = "MailboxConfirmed"
       /\ ~Accepted(smtp_ret) => ~result.smtp_check /\ result.status = "MailboxRejected"
       /\ result.status \in {"MailboxConfirmed", "MailboxRejected"}

\* C5 witness: a probe that ended in a connection failure, classified.
C5_Witness ==
  /\ Returned
  /\ mx_records # <<>>
  /\ smtp_ret.tag = "connect_failed"
  /\ result.status = "MailboxRejected"

\* C6: in a session where RCPT TO was answered with code c, the probe
\* returns Accepted if c is 250 or 251 and a rejection carrying c otherwise.
C6_VerdictFollowsRcptCode ==
  ProbeReturned /\ Len(replies) >= 4
    => IF RcptCode \in {250, 251}
       THEN Accepted(smtp_ret)
       ELSE ~smtp_ret.valid /\ smtp_ret.tag = "not_found" /\ smtp_ret.code = <<RcptCode>>

\* C7: after a non-2xx reply to HELO or to MAIL FROM the probe ends in
\* neither Accepted nor a recipient rejection (it is a protocol error).
C7_RefusedHeloOrMailIsProtocolError ==
  /\ ProbeReturned
  /\ \/ Len(replies) >= 2 /\ ~Is2xx(replies[2])
     \/ Len(replies) >= 3 /\ ~Is2xx(replies[3])
  => ~Accepted(smtp_ret) /\ smtp_ret.tag # "not_found"

\* C8: once RCPT TO has been answered, a QUIT that fails is swallowed: the
\* probe still returns the verdict on the RCPT TO code.
C8_FailedQuitKeepsVerdict ==
  /\ ProbeReturned
  /\ Len(cmds) = 5
  /\ raised # "none"
  => smtp_ret = Verdict(RcptCode)

\* C9: whenever the probe connected, QUIT has been attempted and the
\* connection is closed by the time the probe returns.
C9_QuitAlwaysAttempted ==
  ProbeReturned /\ Len(replies) >= 1
    => /\ \E k \in 1..Len(cmds) : cmds[k].cmd = "QUIT"
       /\ sock = "closed"

\* C10: the commands on a connection are a prefix of Connect, HELO, MAIL
\* FROM, RCPT TO, QUIT; the only recipient named is the address under
\* test; DATA is never sent; one host is connected to, the first MX.
C10_LinearHandshake ==
  /\ IsPrefix(CmdNames, <<"CONNECT", "HELO", "MAIL", "RCPT", "QUIT">>)
  /\ \A k \in 1..Len(cmds) :
       /\ cmds[k].cmd # "DATA"
       /\ cmds[k].cmd = "RCPT" => cmds[k].arg = result.email
       /\ cmds[k].cmd = "CONNECT" => cmds[k].arg = mx_records[1]

\* C10 witness: a session that ran all five steps.
C10_Witness ==
  /\ Len(cmds) = 5
  /\ cmds[4].cmd = "RCPT"
  /\ cmds[4].arg = result.email
  /\ cmds[5].cmd = "QUIT"

\* The MX query of this call has been made and validate_email is past it.
AfterMx ==
  /\ pc \in {"connect", "helo", "mail", "rcpt", "quit", "classify", "return"}
  /\ dnsLog # <<>>
LastQuery == dnsLog[Len(dnsLog)]

\* C11: get_mx_records never raises to validate_email: whatever exception
\* the resolver raised, the program goes on with the empty list, the same
\* for a domain that does not exist and for one without MX records.
C11_MxNeverRaises ==
  /\ dnsLog # <<>> => pc # "crashed"
  /\ AfterMx /\ LastQuery.raises # "none" => mx_records = <<>>
  /\ \A x \in DnsExceptions :
       get_mx_records(DnsRaises(x)) = get_mx_records(DnsRaises("NXDOMAIN"))

\* C11 witness: the query timed out and validate_email went on with no MX.
C11_Witness ==
  /\ AfterMx
  /\ LastQuery.raises = "Timeout"
  /\ mx_records = <<>>
  /\ result.status = "NoMxRecords"

\* exchange is host followed by dots only, and host ends in no dot.
IsDotStripped(host, exchange) ==
  /\ IsPrefix(host, exchange)
  /\ \A k \in (Len(host) + 1)..Len(exchange) : exchange[k] = "."
  /\ host = <<>> \/ host[Len(host)] # "."
Permutations1(n) == {p \in [1..n -> 1..n] : \A a, b \in 1..n : p[a] = p[b] => a = b}

\* C12: the list get_mx_records returns for an answer is a rearrangement of
\* the answer's exchanges, root dots stripped, in ascending preference, the
\* records of one preference in the order of the answer.
C12_MxSortedStable ==
  AfterMx /\ LastQuery.raises = "none"
    => LET recs == LastQuery.records IN
       /\ Len(mx_records) = Len(recs)
       /\ \E p \in Permutations1(Len(recs)) :
            /\ \A k \in 1..Len(recs) : IsDotStripped(mx_records[k], recs[p[k]].exchange)
            /\ \A k, l \in 1..Len(recs) :
                 k < l => \/ recs[p[k]].preference < recs[p[l]].preference
                          \/ /\ recs[p[k]].preference = recs[p[l]].preference
                             /\ p[k] < p[l]

\* C12 witness: an answer whose first record has the larger preference and
\* comes back last.
C12_Witness ==
  /\ AfterMx
  /\ LastQuery.raises = "none"
  /\ Len(LastQuery.records) = 2
  /\ LastQuery.records[1].preference > LastQuery.records[2].preference
  /\ mx_records = <<RStripDot(LastQuery.records[2].exchange),
                    RStripDot(LastQuery.records[1].exchange)>>

Count(S) == Cardinality(S)
Confirmed == {i \in 1..Len(results) : results[i].smtp_check}
DomainValid == {i \in 1..Len(results) : results[i].domain_exists}
DomainValidOnly == {i \in 1..Len(results) : results[i].domain_exists /\ ~results[i].smtp_check}
Invalid == {i \in 1..Len(results) : ~results[i].domain_exists}

\* C13 as claimed: the three counts are the sizes of three disjoint classes
\* (smtp_check; domain_exists without smtp_check; no domain_exists) and sum
\* to the number of addresses.
C13_CountsPartition ==
  pc = "done" /\ counts # <<>>
    => /\ counts[1] = Count(Confirmed)
       /\ counts[2] = Count(DomainValidOnly)
       /\ counts[3] = Count(Invalid)
       /\ counts[1] + counts[2] + counts[3] = Len(emails)

\* C13 amended: the second count is the number of results with
\* domain_exists, the confirmed ones included; it and the third sum to the
\* number of addresses, and the first is at most the second.
C13_CountsNested ==
  pc = "done" /\ counts # <<>>
    => /\ counts[1] = Count(Confirmed)
       /\ counts[2] = Count(DomainValid)
       /\ counts[3] = Count(Invalid)
       /\ counts[2] + counts[3] = Len(emails)
       /\ counts[1] <= counts[2]
       /\ counts[1] + counts[2] + counts[3] = Len(emails) + Count(Confirmed)

\* C13 witness: a summary over a confirmed mailbox and an invalid address.
C13_Witness ==
  /\ pc = "done"
  /\ counts = <<1, 1, 1>>
  /\ Len(emails) = 2

\* The grammar over the whole text: one or more of [A-Za-z0-9._%+-], '@',
\* one or more of [A-Za-z0-9.-], '.', two or more letters, and nothing else.
FullMatch(s) ==
  \E at \in 1..Len(s) : \E dot \in 1..Len(s) :
    /\ at >= 2
    /\ s[at] = "@"
    /\ \A k \in 1..(at - 1) : s[k] \in LocalChars
    /\ dot >= at + 2
    /\ s[dot] = "."
    /\ \A k \in (at + 1)..(dot - 1) : s[k] \in DomainChars
    /\ Len(s) >= dot + 2
    /\ \A k \in (dot + 1)..Len(s) : s[k] \in Letters

\* C14: the format check accepts a text exactly when the whole text matches
\* the grammar; an accepted text holds one '@' and neither starts nor ends
\* with a whitespace character.
C14_FormatMatchesWholeText ==
  pc \in {"mx", "connect", "helo", "mail", "rcpt", "quit", "classify", "return"}
    => /\ result.valid_format <=> FullMatch(result.email)
       /\ result.valid_format
            => /\ Cardinality(AtPositions(result.email)) = 1
               /\ result.email[1] \notin Whitespace
               /\ result.email[Len(result.email)] \notin Whitespace

\* The stage of the handshake the last command issued belongs to.
StageNames == <<"Connecting", "Greeted", "SenderDeclared", "RecipientTested", "Closed">>
StageReached == StageNames[Len(cmds)]

\* C15: a probe that timed out returns an outcome of its own kind (not the
\* one of a failed connection, a protocol error or a rejection) that names
\* the stage at which the time ran out, "Connecting" for the connect.
C15_TimeoutNamesStage ==
  ProbeReturned /\ raised = "timeout"
    => /\ ~smtp_ret.valid
       /\ smtp_ret.tag \notin {"connect_failed", "disconnected", "not_found", "exists"}
       /\ smtp_ret.err = StageReached

\* C16: a connection dropped during HELO, MAIL FROM or RCPT TO is returned
\* as a connection failure or protocol error whose reason names the stage
\* reached, and not as a recipient rejection.
C16_DropNamesStage ==
  ProbeReturned /\ raised = "SMTPServerDisconnected" /\ Len(cmds) \in 2..4
    => /\ ~smtp_ret.valid
       /\ smtp_ret.tag # "not_found"
       /\ smtp_ret.err = StageReached

\* The host is the exchange of a record of the answer that no record
\* precedes in preference.
IsBestMx(host, recs) ==
  \E k \in 1..Len(recs) :
    /\ IsDotStripped(host, recs[k].exchange)
    /\ \A l \in 1..Len(recs) : recs[k].preference <= recs[l].preference

\* C17: a call of validate_email probes once when the format is valid and
\* the MX list non-empty and never otherwise; the probe goes to
\* mx_records[0], a host of lowest preference value, and to no other host
\* even when it fails; so every result with domain_exists is
\* MailboxConfirmed or MailboxRejected.
C17_OneProbeFirstMx ==
  /\ Len(probed) <= 1
  /\ Cardinality({k \in 1..Len(cmds) : cmds[k].cmd = "CONNECT"}) <= 1
  /\ probed # <<>>
       => /\ probed[1] = mx_records[1]
          /\ result.valid_format
          /\ IsBestMx(probed[1], LastQuery.records)
          /\ \A k \in 1..Len(cmds) : cmds[k].cmd = "CONNECT" => cmds[k].arg = probed[1]
  /\ Returned
       => Len(probed) = (IF result.valid_format /\ mx_records # <<>> THEN 1 ELSE 0)
  /\ \A i \in 1..Len(results) :
       results[i].domain_exists
         => results[i].status \in {"MailboxConfirmed", "MailboxRejected"}

\* C17 witness: two different MX hosts, the probe of the first failed at the
\* connect, and validate_email returned without trying the second.
C17_Witness ==
  /\ Returned
  /\ Len(mx_records) = 2
  /\ mx_records[1] # mx_records[2]
  /\ probed = <<mx_records[1]>>
  /\ Len(cmds) = 1
  /\ raised = "SMTPConnectError"
  /\ result.status = "MailboxRejected"

\* C18: every MX query goes through the resolver object of the validator,
\* on which __init__ set the budgets timeout 5 and lifetime 5.
C18_QueryUsesConfiguredResolver ==
  \A k \in 1..Len(dnsLog) :
    /\ validator.dns_resolver = [timeout |-> 5, lifetime |-> 5]
    /\ dnsLog[k].resolver = "self.dns_resolver"

\* C19: validate_email carries no state from call to call: the validator
\* object is never written after its construction, every call starts from
\* the same locals whatever was validated before, and two results for one
\* address agree on the format and, when both got MX records from the same
\* DNS, on the MX list.
C19_NoStateBetweenCalls ==
  /\ validator.made => validator = NewValidator(10)
  /\ pc = "format"
       => /\ result = NewResult(emails[idx])
          /\ domain = <<>>
          /\ mx_records = <<>>
          /\ smtp_ret = NoRet
          /\ sock = "none"
          /\ cmds = <<>>
          /\ dnsLog = <<>>
          /\ probed = <<>>
  /\ \A i, j \in 1..Len(results) :
       results[i].email = results[j].email
         => /\ results[i].valid_format = results[j].valid_format
            /\ results[i].domain_exists /\ results[j].domain_exists
                 => results[i].mx_records = results[j].mx_records
            /\ results[i].details = results[j].details => results[i] = results[j]

\* C19 witness: the same address validated twice in one batch, confirmed
\* both times, with equal results.
C19_Witness ==
  /\ pc = "done"
  /\ Len(results) = 2
  /\ emails[1] = emails[2]
  /\ results[1].smtp_check
  /\ results[1] = results[2]


\* The calls of bot.send_message made so far.
Sends == SelectSeq(tg.api, LAMBDA c : c.call = "send_message")
\* send_from_file has been entered / has ended.
InSendFromFile == tg.pc \in {"read", "send", "report"} \/ (tg.pc = "done" /\ tg.connected)
SendFromFileEnded == tg.pc = "report" \/ (tg.pc = "done" /\ tg.connected)

\* C20: the send operations always end with a boolean and never propagate an
\* exception; send_from_file calls the bot API at most once, only after the
\* file was read and its stripped text is non-empty, and returns True exactly
\* when that call succeeded; main sends only with both settings present and
\* after test_connection returned True.
C20_SendEndsWithBoolean ==
  /\ SendFromFileEnded => tg.ret \in {<<TRUE>>, <<FALSE>>}
  /\ tg.pc = "crashed" => ~tg.connected /\ Sends = <<>> /\ tg.ret = <<>>
  /\ Len(Sends) <= 1
  /\ Sends # <<>> =>
       /\ tg.file.exists /\ tg.file.decodable
       /\ Strip(tg.file.content) # <<>>
       /\ Sends[1].text = Strip(tg.file.content)
       /\ Truthy(tg.bot_token) /\ Truthy(tg.chat_id)
       /\ tg.connected
       /\ Len(tg.api) = 2 /\ tg.api[1] = ApiCall("get_me", <<>>, "ok")
  /\ tg.ret = <<TRUE>> <=> (Sends # <<>> /\ Sends[1].outcome = "ok")
  /\ (SendFromFileEnded /\ Sends = <<>>) => tg.ret = <<FALSE>>

\* A message.txt with text around blanks was sent and True came back.
C20_Witness ==
  /\ tg.pc = "done"
  /\ tg.ret = <<TRUE>>
  /\ Len(Sends) = 1
  /\ Sends[1].text # tg.file.content

====
